---- MODULE Spec2Model ----
(***************************************************************************)
(* RoboScientist, roboscientist/datasets: the random equation generator    *)
(* (equations_utils.py) and the equation wrapper (equations_base.py).      *)
(*                                                                         *)
(* Five state machines share the variables below, one per group of         *)
(* functions; each has its own specification:                              *)
(*   SpecTree     generate_random_tree_with_prior_on_arity                 *)
(*   SpecLabel    generate_random_formula_on_graph                         *)
(*   SpecConst    graph_to_expression's enumeration of constants           *)
(*   SpecPostfix  expr_to_postfix and postfix_to_expr                      *)
(*   SpecEquation BaseEquation.func, subs, derivative_wrt_x                *)
(***************************************************************************)
EXTENDS Integers, Sequences, FiniteSets, TLC

VARIABLES
    \* generate_random_tree_with_prior_on_arity
    n, max_degree, degreeness,  \* the arguments
    nums,                       \* the candidate pool (np array, ascending)
    prufer_sequence,            \* the sequence built so far
    tpc,                        \* "loop", "shuffle", "decode", "done", "error"
    terr,                       \* the error raised ("" when none)
    draws,                      \* number of np.random.choice draws made
    T,                          \* the returned tree [nodes, edges]
    \* generate_random_formula_on_graph
    D,                          \* the directed tree [nodes, edges]
    n_symbols,                  \* the argument
    expr,                       \* D.nodes[node]["expr"], NoLabel while unset
    lnode,                      \* the node the loop of line 42 is at
    \* graph_to_expression at the root, lines 111-117
    cexpr,                      \* the simplified expression of line 114
    cstr,                       \* the serialized expression, renumbered (116)
    cresult,                    \* the expression returned (117)
    cpc,                        \* "simplified", "enumerated", "done"
    \* expr_to_postfix, postfix_to_expr
    pexpr,                      \* the expression given to expr_to_postfix
    post, post_arity,           \* the tokens and their arities
    prebuilt,                   \* what postfix_to_expr returned
    perr,                       \* the error postfix_to_expr raised ("" if none)
    ppc,                        \* "expr", "tokens", "done", "error"
    \* BaseEquation
    _expr,                      \* the wrapped expression
    _lambdified_expr,           \* lambdify(self.variables, expr)
    call,                       \* the method called and its arguments
    outcome,                    \* what the call returned or raised
    epc                         \* "ready", "called"

treeVars == <<n, max_degree, degreeness, nums, prufer_sequence, tpc, terr, draws, T>>

labelVars == <<D, n_symbols, expr, lnode>>

constVars == <<cexpr, cstr, cresult, cpc>>

postfixVars == <<pexpr, post, post_arity, prebuilt, perr, ppc>>

equationVars == <<_expr, _lambdified_expr, call, outcome, epc>>

vars == <<treeVars, labelVars, constVars, postfixVars, equationVars>>

(***************************************************************************)
(* Values of variables that hold nothing yet.                              *)
(***************************************************************************)
NoTree == [nodes |-> {}, edges |-> {}]

NoExpr == [kind |-> "none", base |-> "", index |-> -1, args |-> <<>>]

Scalar(x) == [shape |-> "scalar", v |-> <<x>>]

None == [isNone |-> TRUE, v |-> <<>>]

NoCall == [op |-> "", X |-> <<>>, constants |-> None]

NoOutcome == [kind |-> "none", err |-> "", value |-> Scalar(0), e |-> NoExpr]

(***************************************************************************)
(* Bounds of the model.                                                    *)
(***************************************************************************)
MaxN == 4
MaxDegree == 3
MaxNodes == 4
MaxSymbols == 2
MaxExprSize == 5
MaxTokens == 3
MaxRows == 1

\* The exponents tried: 0 (uniform), the default 1, 2, and exponents at which
\* an int64 power or sum of powers leaves the int64 range.
Degreenesses == {0, 1, 2, 62, 63}

(***************************************************************************)
(* int64 arithmetic of the numpy arrays nums and proba: a value is its     *)
(* two's-complement representation, Int64Limbs limbs to the base LimbBase, *)
(* least significant first.                                                *)
(***************************************************************************)
Int64Limbs == 8
LimbBase == 256

SmallInt(x, w) == [i \in 1..w |-> IF i = 1 THEN x ELSE 0]

IsZero(a) == \A i \in DOMAIN a : a[i] = 0

IsNeg(a) == a[Len(a)] >= LimbBase \div 2

RECURSIVE MulSmallFrom(_, _, _, _)
MulSmallFrom(a, b, i, carry) ==
    IF i > Len(a) THEN <<>>
    ELSE LET t == a[i] * b + carry
         IN  <<t % LimbBase>> \o MulSmallFrom(a, b, i + 1, t \div LimbBase)

\* a * b, wrapped to the width of a (b a small natural number)
MulSmall(a, b) == MulSmallFrom(a, b, 1, 0)

RECURSIVE AddFrom(_, _, _, _)
AddFrom(a, b, i, carry) ==
    IF i > Len(a) THEN <<>>
    ELSE LET t == a[i] + b[i] + carry
         IN  <<t % LimbBase>> \o AddFrom(a, b, i + 1, t \div LimbBase)

\* a + b, wrapped to the width of a
AddWrap(a, b) == AddFrom(a, b, 1, 0)

\* a, sign-extended by one limb
SignExtend(a) == a \o <<IF IsNeg(a) THEN LimbBase - 1 ELSE 0>>

\* an extended value is the extension of an int64: the sum did not wrap
FitsInt64(e) == e[Len(e)] = (IF e[Len(e) - 1] >= LimbBase \div 2 THEN LimbBase - 1 ELSE 0)

RECURSIVE ColumnSum(_, _, _, _)
\* the sum of a[i] * b[k + 1 - i] for i in lo..k
ColumnSum(a, b, k, lo) ==
    IF lo > k THEN 0 ELSE a[lo] * b[k + 1 - lo] + ColumnSum(a, b, k, lo + 1)

RECURSIVE MulFrom(_, _, _, _)
MulFrom(a, b, k, carry) ==
    IF k > Len(a) THEN <<>>
    ELSE LET t == ColumnSum(a, b, k, 1) + carry
         IN  <<t % LimbBase>> \o MulFrom(a, b, k + 1, t \div LimbBase)

\* a * b, wrapped to the width of a
MulWrap(a, b) == MulFrom(a, b, 1, 0)

RECURSIVE PowInt64(_, _)
\* base ** d on int64 (numpy's integer power wraps silently), by squaring
PowInt64(base, d) ==
    IF d = 0 THEN SmallInt(1, Int64Limbs)
    ELSE LET h == PowInt64(base, d \div 2)
             sq == MulWrap(h, h)
         IN  IF d % 2 = 1 THEN MulSmall(sq, base) ELSE sq

PowTableLoop == [base \in 1..(MaxN + 1) |-> [d \in Degreenesses |-> PowInt64(base, d)]]

(***************************************************************************)
(* generate_random_tree_with_prior_on_arity                                *)
(***************************************************************************)
Range(s) == {s[i] : i \in DOMAIN s}

\* count of val in sequence s (np.unique(..., return_counts=True))
Count(val, s) == Cardinality({i \in DOMAIN s : s[i] = val})

RECURSIVE SelectSeqNot(_, _)
\* the array a without the elements of the set drop (np.delete of np.argwhere)
SelectSeqNot(a, drop) ==
    IF a = <<>> THEN <<>>
    ELSE (IF Head(a) \in drop THEN <<>> ELSE <<Head(a)>>) \o SelectSeqNot(Tail(a), drop)

\* lines 20-22 with ">=" replaced by ">": a value stays until it exceeds the cap
CapPool_OffByOne(pool, seq, cap) ==
    SelectSeqNot(pool, {val \in Range(seq) : Count(val, seq) > cap})

\* lines 20-22: delete num with degree >= max_degree
CapPool(pool, seq, cap) ==
    SelectSeqNot(pool, {val \in Range(seq) : Count(val, seq) >= cap})

\* lines 24-28: proba of pool value val, an int64
Proba(val, seq, deg) == PowTableLoop[1 + Count(val, seq)][deg]

RECURSIVE SumExt(_, _, _)
\* proba.sum(), computed one limb wider than int64
SumExt(pool, seq, deg) ==
    IF pool = <<>> THEN SmallInt(0, Int64Limbs + 1)
    ELSE AddWrap(SignExtend(Proba(Head(pool), seq, deg)), SumExt(Tail(pool), seq, deg))

\* line 29-30: proba / proba.sum() is a probability vector np.random.choice
\* accepts: no entry negative, the entries sum to 1
ProbaValid(pool, seq, deg) ==
    LET s == SumExt(pool, seq, deg)
    IN  /\ FitsInt64(s)
        /\ ~IsZero(s)
        /\ \A i \in DOMAIN pool :
              \/ IsZero(Proba(pool[i], seq, deg))
              \/ IsNeg(Proba(pool[i], seq, deg)) = IsNeg(s)

\* the values np.random.choice can return: those of non-zero probability
Drawable(pool, seq, deg) ==
    {pool[i] : i \in {j \in DOMAIN pool : ~IsZero(Proba(pool[j], seq, deg))}}

RECURSIVE Arange(_, _)
Arange(lo, hi) == IF lo >= hi THEN <<>> ELSE <<lo>> \o Arange(lo + 1, hi)

SetMin(S) == CHOOSE x \in S : \A y \in S : x <= y

RECURSIVE PruferEdges(_, _)
\* networkx from_prufer_sequence: the undirected edges {u, v}; deg[k] is the
\* degree node k still has to receive
PruferEdges(seq, deg) ==
    IF seq = <<>> THEN {{k \in DOMAIN deg : deg[k] = 1}}
    ELSE LET u == SetMin({k \in DOMAIN deg : deg[k] = 1})
             v == Head(seq)
         IN  {{u, v}} \cup PruferEdges(Tail(seq), [deg EXCEPT ![u] = 0, ![v] = @ - 1])

from_prufer_sequence(seq) ==
    PruferEdges(seq, [k \in 0..(Len(seq) + 1) |-> 1 + Count(k, seq)])

RECURSIVE BfsEdges(_, _, _)
\* networkx bfs_edges: the edges parent -> child in breadth-first order
BfsEdges(E, visited, frontier) ==
    IF frontier = {} THEN {}
    ELSE LET new == {e \in frontier \X ((UNION E) \ visited) : {e[1], e[2]} \in E}
             next == {e[2] : e \in new}
         IN  new \cup BfsEdges(E, visited \cup next, next)

\* networkx bfs_tree(G, source): the source and every node an edge reaches
bfs_tree(E, source) ==
    LET edges == BfsEdges(E, {source}, {source})
    IN  [nodes |-> {source} \cup {e[2] : e \in edges}, edges |-> edges]

\* line 18 continuing for n + 2 elements, the number of nodes
LoopContinues_NodeCount(seq, k) == Len(seq) < k + 2

\* line 18: while len(prufer_sequence) < n
LoopContinues(seq, k) == Len(seq) < k

TreeInit ==
    /\ n \in 1..MaxN
    /\ max_degree \in 1..MaxDegree
    /\ degreeness \in Degreenesses
    /\ nums = Arange(1, n + 1)
    /\ prufer_sequence = <<0>>
    /\ tpc = "loop"
    /\ terr = ""
    /\ draws = 0
    /\ T = NoTree
    \* the other groups of functions are idle
    /\ D = NoTree /\ n_symbols = 0 /\ expr = <<>> /\ lnode = -1
    /\ cexpr = NoExpr /\ cstr = <<>> /\ cresult = NoExpr /\ cpc = "idle"
    /\ pexpr = NoExpr /\ post = <<>> /\ post_arity = <<>>
    /\ prebuilt = NoExpr /\ perr = "" /\ ppc = "idle"
    /\ _expr = NoExpr /\ _lambdified_expr = [params |-> <<>>, body |-> NoExpr]
    /\ call = NoCall /\ outcome = NoOutcome /\ epc = "idle"

\* lines 18-31: one iteration of the sampling loop
SampleStep ==
    /\ tpc = "loop"
    /\ LoopContinues(prufer_sequence, n)
    /\ LET pool == CapPool(nums, prufer_sequence, max_degree)
       IN  /\ nums' = pool
           /\ IF pool = <<>>
              THEN /\ tpc' = "error"
                   /\ terr' = "EmptyPool"
                   /\ UNCHANGED <<prufer_sequence, draws>>
              ELSE IF ~ProbaValid(pool, prufer_sequence, degreeness)
              THEN /\ tpc' = "error"
                   /\ terr' = "BadProbabilities"
                   /\ UNCHANGED <<prufer_sequence, draws>>
              ELSE /\ \E num \in Drawable(pool, prufer_sequence, degreeness) :
                         prufer_sequence' = Append(prufer_sequence, num)
                   /\ draws' = draws + 1
                   /\ UNCHANGED <<tpc, terr>>
    /\ UNCHANGED <<n, max_degree, degreeness, T>>
    /\ UNCHANGED <<labelVars, constVars, postfixVars, equationVars>>

\* line 18: the loop condition fails
LoopExit ==
    /\ tpc = "loop"
    /\ ~LoopContinues(prufer_sequence, n)
    /\ tpc' = "shuffle"
    /\ UNCHANGED <<n, max_degree, degreeness, nums, prufer_sequence, terr, draws, T>>
    /\ UNCHANGED <<labelVars, constVars, postfixVars, equationVars>>

\* lines 33-34: np.random.shuffle, then the first n elements
Shuffle ==
    /\ tpc = "shuffle"
    /\ \E p \in Permutations(DOMAIN prufer_sequence) :
          prufer_sequence' =
              SubSeq([i \in DOMAIN prufer_sequence |-> prufer_sequence[p[i]]], 1, n)
    /\ tpc' = "decode"
    /\ UNCHANGED <<n, max_degree, degreeness, nums, terr, draws, T>>
    /\ UNCHANGED <<labelVars, constVars, postfixVars, equationVars>>

\* line 35: decode the sequence and root the tree at node 0
Decode ==
    /\ tpc = "decode"
    /\ T' = bfs_tree(from_prufer_sequence(prufer_sequence), 0)
    /\ tpc' = "done"
    /\ UNCHANGED <<n, max_degree, degreeness, nums, prufer_sequence, terr, draws>>
    /\ UNCHANGED <<labelVars, constVars, postfixVars, equationVars>>


(***************************************************************************)
(* Properties of the generated tree                                        *)
(***************************************************************************)
OutDegree(G, u) == Cardinality({e \in G.edges : e[1] = u})

InDegree(G, u) == Cardinality({e \in G.edges : e[2] = u})

RECURSIVE ReachableFrom(_, _)
\* the nodes of G that a directed path from the set S reaches
ReachableFrom(G, S) ==
    LET more == S \cup {e[2] : e \in {f \in G.edges : f[1] \in S}}
    IN  IF more = S THEN S ELSE ReachableFrom(G, more)

\* G is a directed tree of k nodes rooted at node 0
RootedTree(G, k) ==
    /\ Cardinality(G.nodes) = k
    /\ 0 \in G.nodes
    /\ \A e \in G.edges : e[1] \in G.nodes /\ e[2] \in G.nodes
    /\ Cardinality(G.edges) = k - 1
    /\ \A u \in G.nodes : InDegree(G, u) = (IF u = 0 THEN 0 ELSE 1)
    /\ ReachableFrom(G, {0}) = G.nodes

\* C1: for every n >= 1, max_degree >= 2 and degreeness >= 0 the call returns
\* (it raises nothing) a directed tree of exactly n + 2 nodes in which node 0
\* is the only node without an incoming edge and reaches every other node.
C1_ReturnsTree ==
    (n >= 1 /\ max_degree >= 2 /\ degreeness >= 0) =>
        /\ tpc # "error"
        /\ tpc = "done" => RootedTree(T, n + 2)

\* What remains of C1 when no power or sum of powers leaves int64: whenever
\* the call returns, it returns such a tree.
ReturnedTreeIsRooted == tpc = "done" => RootedTree(T, n + 2)

\* C5: for n >= 1 and max_degree >= 2 no value occurs more than max_degree
\* times in the sequence that is decoded, and no node of the returned tree
\* has more than max_degree children.
C5_DegreeCap ==
    (n >= 1 /\ max_degree >= 2) =>
        /\ tpc \in {"decode", "done"} =>
              \A val \in Range(prufer_sequence) :
                  Count(val, prufer_sequence) <= max_degree
        /\ tpc = "done" => \A u \in T.nodes : OutDegree(T, u) <= max_degree

\* C5's case: a tree was returned in which a sampled value reached the cap.
C5_Witness ==
    /\ tpc = "done"
    /\ max_degree = 2
    /\ \E u \in T.nodes \ {0} :
          /\ Count(u, prufer_sequence) = max_degree
          /\ OutDegree(T, u) = max_degree

\* C10: for n >= 1 and max_degree >= 1 the pool is non-empty at every sampling
\* step, the loop never fails on an exhausted pool, and it ends after exactly
\* n - 1 draws with a sequence of length n that holds the seed 0 exactly once
\* (no draw raises at the default degreeness 1, nor at 0 or 2).
C10_PoolNeverExhausted ==
    (n >= 1 /\ max_degree >= 1) =>
        /\ (tpc = "loop" /\ LoopContinues(prufer_sequence, n)) =>
              CapPool(nums, prufer_sequence, max_degree) # <<>>
        /\ terr # "EmptyPool"
        /\ draws <= n - 1
        /\ tpc \in {"shuffle", "decode", "done"} =>
              /\ draws = n - 1
              /\ Len(prufer_sequence) = n
              /\ Count(0, prufer_sequence) = 1
        /\ degreeness <= 2 => tpc # "error"

\* C10's case: with max_degree = 1 every draw removed its value from the pool
\* and the loop still ended after n - 1 draws.
C10_Witness ==
    /\ tpc = "shuffle"
    /\ max_degree = 1
    /\ n = MaxN
    /\ draws = n - 1
    /\ Len(nums) = 2

(***************************************************************************)
(* equations_settings: the vocabulary. CONST_BASE_NAME, functions_with_arity *)
(* (0: the any-arity pool, 1: the unary pool, d: the pool for exactly d     *)
(* arguments) and constants (the pool of leaf constants).                   *)
(***************************************************************************)
CONST_BASE_NAME == "const"

RegisteredArities == {0, 1, 2}

functions_with_arity(d) ==
    CASE d = 0 -> {"Add", "Mul"}
      [] d = 1 -> {"sin", "cos"}
      [] d = 2 -> {"Pow"}

(***************************************************************************)
(* Strings the generator builds. A label is a record: kind "Symbol" is the *)
(* text Symbol('<base><index>') (index -1: no index), kind "text" is the   *)
(* text base itself.                                                       *)
(***************************************************************************)
Text(str) == [kind |-> "text", base |-> str, index |-> -1]

\* line 8-9: construct_symbol("<base><index>")
construct_symbol(base, index) == [kind |-> "Symbol", base |-> base, index |-> index]

constants == {Text("1.0"), construct_symbol(CONST_BASE_NAME, -1)}

NoLabel == [kind |-> "unset", base |-> "", index |-> -1]

(***************************************************************************)
(* generate_random_formula_on_graph                                        *)
(***************************************************************************)
\* the directed trees on the nodes 0..k-1 in which node i has a parent below i
TreesOn(k) ==
    {[nodes |-> 0..(k - 1), edges |-> {<<par[i], i>> : i \in 1..(k - 1)}] :
        par \in {q \in [1..(k - 1) -> 0..(k - 1)] : \A i \in 1..(k - 1) : q[i] < i}}

\* line 41: the free variables x0 .. x{n_symbols - 1}
symbols(k) == {construct_symbol("x", i) : i \in 0..(k - 1)}

\* lines 55-57: functions_with_arity[0] + functions_with_arity.get(d, [""])
InnerLabels(d) ==
    {Text(f) : f \in functions_with_arity(0) \cup
                     (IF d \in RegisteredArities THEN functions_with_arity(d) ELSE {""})}

\* lines 44-57: the labels np.random.choice can give a node of out-degree d
LabelChoices(d, k) ==
    IF d = 0 THEN symbols(k) \cup constants
    ELSE IF d = 1 THEN {Text(f) : f \in functions_with_arity(1)}
    ELSE InnerLabels(d)

LabelInit ==
    /\ D \in UNION {TreesOn(k) : k \in 1..MaxNodes}
    /\ n_symbols \in 1..MaxSymbols
    /\ expr = [u \in D.nodes |-> NoLabel]
    /\ lnode = 0
    \* the other groups of functions are idle
    /\ n = 0 /\ max_degree = 0 /\ degreeness = 0 /\ nums = <<>>
    /\ prufer_sequence = <<>> /\ tpc = "idle" /\ terr = "" /\ draws = 0 /\ T = NoTree
    /\ cexpr = NoExpr /\ cstr = <<>> /\ cresult = NoExpr /\ cpc = "idle"
    /\ pexpr = NoExpr /\ post = <<>> /\ post_arity = <<>>
    /\ prebuilt = NoExpr /\ perr = "" /\ ppc = "idle"
    /\ _expr = NoExpr /\ _lambdified_expr = [params |-> <<>>, body |-> NoExpr]
    /\ call = NoCall /\ outcome = NoOutcome /\ epc = "idle"

\* lines 42-57: one iteration of the loop over D.nodes()
LabelNode ==
    /\ lnode \in D.nodes
    /\ \E label \in LabelChoices(OutDegree(D, lnode), n_symbols) :
          expr' = [expr EXCEPT ![lnode] = label]
    /\ lnode' = lnode + 1
    /\ UNCHANGED <<D, n_symbols>>
    /\ UNCHANGED <<treeVars, constVars, postfixVars, equationVars>>

(***************************************************************************)
(* Expressions of the symbolic-algebra engine: a node is a record; a leaf  *)
(* is a Symbol named <base><index> (index -1: no index), an Integer or a   *)
(* Float of value index; an inner node applies the operator base to args.  *)
(***************************************************************************)
Sym(base, index) == [kind |-> "Symbol", base |-> base, index |-> index, args |-> <<>>]

IntLit(v) == [kind |-> "Integer", base |-> "", index |-> v, args |-> <<>>]

FloatLit(v) == [kind |-> "Float", base |-> "", index |-> v, args |-> <<>>]

Node(f, args) == [kind |-> "op", base |-> f, index |-> -1, args |-> args]

UnaryFunctions == {"sin"}

BinaryOperators == {"Add", "Mul", "Pow"}

IsNumber(e) == e.kind \in {"Integer", "Float"}

\* the forms the engine keeps unevaluated: no Add directly under an Add, no
\* Mul under a Mul, at most one number among the arguments of an Add or Mul,
\* a symbolic argument in every Pow and sin
Canonical(f, args) ==
    /\ f \in {"Add", "Mul"} =>
          /\ \A i \in DOMAIN args : ~(args[i].kind = "op" /\ args[i].base = f)
          /\ Cardinality({i \in DOMAIN args : IsNumber(args[i])}) <= 1
    /\ f \notin {"Add", "Mul"} => \E i \in DOMAIN args : ~IsNumber(args[i])

RECURSIVE ExprsOfSize(_, _, _, _)
\* the expressions of exactly k nodes over the given leaves and operators
ExprsOfSize(leaves, unary, binary, k) ==
    IF k = 1 THEN leaves
    ELSE {e \in {Node(f, <<a>>) : f \in unary,
                                  a \in ExprsOfSize(leaves, unary, binary, k - 1)} :
             Canonical(e.base, e.args)}
         \cup UNION {{e \in {Node(f, <<a, b>>) : f \in binary,
                                 a \in ExprsOfSize(leaves, unary, binary, i),
                                 b \in ExprsOfSize(leaves, unary, binary, k - 1 - i)} :
                          Canonical(e.base, e.args)} : i \in 1..(k - 2)}

ExprsUpTo(leaves, unary, binary, k) ==
    UNION {ExprsOfSize(leaves, unary, binary, i) : i \in 1..k}

(***************************************************************************)
(* Text: a string is a sequence of tokens, each a TLA+ string. A natural   *)
(* number is written with the digit tokens of Digits.                      *)
(***************************************************************************)
Digits == <<"0", "1", "2", "3", "4", "5", "6", "7", "8", "9">>

\* str(i) for 0 <= i <= 9
ToStr(i) == Digits[i + 1]

IsDigit(tok) == \E i \in DOMAIN Digits : Digits[i] = tok

\* int(tok)
ToInt(tok) == (CHOOSE i \in DOMAIN Digits : Digits[i] = tok) - 1

\* the name <base><index>
NameText(base, index) == IF index < 0 THEN <<base>> ELSE <<base, ToStr(index)>>

\* "Symbol('{}')".format(name), lines 8-9, 128, 170
SymbolText(name) == <<"Symbol('">> \o name \o <<"')">>

RECURSIVE JoinComma(_)
\* ",".join(parts)
JoinComma(parts) ==
    IF parts = <<>> THEN <<>>
    ELSE IF Len(parts) = 1 THEN parts[1]
    ELSE parts[1] \o <<",">> \o JoinComma(Tail(parts))

RECURSIVE srepr(_)
\* sympy srepr: the constructor text of an expression
srepr(e) ==
    CASE e.kind = "Symbol" -> SymbolText(NameText(e.base, e.index))
      [] e.kind = "Integer" -> <<"Integer", "(", ToStr(e.index), ")">>
      [] e.kind = "Float" -> <<"Float('", ToStr(e.index), ".0", "', precision=53)">>
      [] OTHER -> <<e.base, "(">> \o JoinComma([i \in DOMAIN e.args |-> srepr(e.args[i])])
                    \o <<")">>

RECURSIVE Splice(_, _)
\* the arguments with those of nested f nodes spliced in
Splice(f, args) ==
    IF args = <<>> THEN <<>>
    ELSE (IF Head(args).kind = "op" /\ Head(args).base = f
          THEN Head(args).args ELSE <<Head(args)>>) \o Splice(f, Tail(args))

\* what calling the constructor f on args evaluates to: Integer and Float
\* build the number; Add and Mul flatten and give a lone argument back
Construct(f, args) ==
    CASE f = "Integer" -> IntLit(args[1].index)
      [] f = "Float" -> FloatLit(args[1].index)
      [] f \in {"Add", "Mul"} ->
            LET flat == Splice(f, args)
            IN  IF Len(flat) = 1 THEN flat[1] ELSE Node(f, flat)
      [] OTHER -> Node(f, args)

\* the constructors a text may call, and the argument counts each accepts
KnownConstructors == {"Add", "Mul", "Pow", "sin", "Integer"}

Accepts(f, k) ==
    CASE f \in {"Add", "Mul"} -> TRUE
      [] f = "Pow" -> k = 2
      [] OTHER -> k = 1

ParseFailure == [ok |-> FALSE, e |-> NoExpr, rest |-> <<>>]

RECURSIVE ParseExpr(_)
RECURSIVE ParseArgs(_, _)
\* the expression at the head of the text s, and the text after it; not ok
\* when the text calls what is no constructor, or with the wrong arguments
ParseExpr(s) ==
    IF s = <<>> THEN ParseFailure
    ELSE CASE s[1] = "Symbol('" ->
            IF s[3] = "')"
            THEN [ok |-> TRUE, e |-> Sym(s[2], -1), rest |-> SubSeq(s, 4, Len(s))]
            ELSE [ok |-> TRUE, e |-> Sym(s[2], ToInt(s[3])), rest |-> SubSeq(s, 5, Len(s))]
      [] s[1] = "Float('" ->
            [ok |-> TRUE, e |-> FloatLit(ToInt(s[2])), rest |-> SubSeq(s, 5, Len(s))]
      [] IsDigit(s[1]) ->
            IF Len(s) >= 2 /\ s[2] = ".0"
            THEN [ok |-> TRUE, e |-> FloatLit(ToInt(s[1])), rest |-> SubSeq(s, 3, Len(s))]
            ELSE [ok |-> TRUE, e |-> IntLit(ToInt(s[1])), rest |-> Tail(s)]
      [] OTHER ->
            IF ~(s[1] \in KnownConstructors /\ Len(s) >= 2 /\ s[2] = "(")
            THEN ParseFailure
            ELSE LET r == ParseArgs(SubSeq(s, 3, Len(s)), <<>>)
                 IN  IF r.ok /\ Accepts(s[1], Len(r.args))
                     THEN [ok |-> TRUE, e |-> Construct(s[1], r.args), rest |-> r.rest]
                     ELSE ParseFailure

\* the arguments up to the closing parenthesis, after those of acc
ParseArgs(s, acc) ==
    LET r == ParseExpr(s)
        more == Append(acc, r.e)
    IN  IF ~r.ok \/ r.rest = <<>> THEN [ok |-> FALSE, args |-> <<>>, rest |-> <<>>]
        ELSE IF Head(r.rest) = ","
        THEN ParseArgs(Tail(r.rest), more)
        ELSE [ok |-> TRUE, args |-> more, rest |-> Tail(r.rest)]

\* sympy sympify of a text: the expression it evaluates to, ok unless the
\* evaluation raises
sympify(s) ==
    LET r == ParseExpr(s)
    IN  IF r.ok /\ r.rest = <<>> THEN [ok |-> TRUE, e |-> r.e] ELSE [ok |-> FALSE, e |-> NoExpr]

(***************************************************************************)
(* enumerate_constants_in_expression and the root of graph_to_expression   *)
(***************************************************************************)
\* line 79: the pattern r"Symbol\('const'\)"
ConstPattern == SymbolText(<<CONST_BASE_NAME>>)

MatchesAt(s, pat) == Len(s) >= Len(pat) /\ SubSeq(s, 1, Len(pat)) = pat

\* lines 66-69: _EnumerateConstant.__call__ at the counter value const_counter
EnumerateConstant(const_counter) == SymbolText(NameText(CONST_BASE_NAME, const_counter))

RECURSIVE ReSub(_, _)
\* line 79: re.sub calls the _EnumerateConstant object on every match, left to
\* right; each call returns the symbol of the counter and increments it
ReSub(s, const_counter) ==
    IF s = <<>> THEN <<>>
    ELSE IF MatchesAt(s, ConstPattern)
    THEN EnumerateConstant(const_counter)
             \o ReSub(SubSeq(s, Len(ConstPattern) + 1, Len(s)), const_counter + 1)
    ELSE <<Head(s)>> \o ReSub(Tail(s), const_counter)

\* the counter starting at 1, as the docstring's const_1, const_2 has it
enumerate_constants_from_one(text) == ReSub(text, 1)

\* lines 72-79, with const_counter = 0 of line 64
enumerate_constants_in_expression(text) == ReSub(text, 0)

\* the forms line 114 can give: any expression over x0, x1, the un-numbered
\* constant and an integer
ConstExprs ==
    ExprsUpTo({Sym("x", 0), Sym("x", 1), Sym(CONST_BASE_NAME, -1), IntLit(2)},
              UnaryFunctions, BinaryOperators, MaxExprSize)

ConstInit ==
    /\ cexpr \in ConstExprs
    /\ cstr = <<>>
    /\ cresult = NoExpr
    /\ cpc = "simplified"
    \* the other groups of functions are idle
    /\ n = 0 /\ max_degree = 0 /\ degreeness = 0 /\ nums = <<>>
    /\ prufer_sequence = <<>> /\ tpc = "idle" /\ terr = "" /\ draws = 0 /\ T = NoTree
    /\ D = NoTree /\ n_symbols = 0 /\ expr = <<>> /\ lnode = -1
    /\ pexpr = NoExpr /\ post = <<>> /\ post_arity = <<>>
    /\ prebuilt = NoExpr /\ perr = "" /\ ppc = "idle"
    /\ _expr = NoExpr /\ _lambdified_expr = [params |-> <<>>, body |-> NoExpr]
    /\ call = NoCall /\ outcome = NoOutcome /\ epc = "idle"

\* lines 116-117: renumber the constants of the serialized expression, then
\* evaluate the text (no rewriting by simplify is modelled beyond evaluation)
EnumerateAtRoot ==
    /\ cpc = "simplified"
    /\ cstr' = enumerate_constants_in_expression(srepr(cexpr))
    /\ cresult' = sympify(cstr').e
    /\ cpc' = "done"
    /\ UNCHANGED cexpr
    /\ UNCHANGED <<treeVars, labelVars, postfixVars, equationVars>>

(***************************************************************************)
(* expr_to_postfix and postfix_to_expr                                     *)
(***************************************************************************)
\* Python values in the token list: a str (its text) or a float (its value)
PyStr(text) == [type |-> "str", text |-> text, value |-> -1]

PyFloat(v) == [type |-> "float", text |-> <<>>, value |-> v]

RECURSIVE Flatten(_)
Flatten(seqs) == IF seqs = <<>> THEN <<>> ELSE Head(seqs) \o Flatten(Tail(seqs))

\* lines 151-156: the token of one node
NodeToken(e) ==
    CASE e.kind = "Symbol" -> PyStr(NameText(e.base, e.index))
      [] e.kind = "op" -> PyStr(<<e.base>>)
      [] OTHER -> PyFloat(e.index)

RECURSIVE PostorderNodes(_)
\* sympy postorder_traversal: the arguments' nodes in order, then the node
PostorderNodes(e) ==
    Flatten([i \in DOMAIN e.args |-> PostorderNodes(e.args[i])]) \o <<e>>

\* lines 142-158
expr_to_postfix(e) ==
    LET nodes == PostorderNodes(e)
    IN  [post |-> [i \in DOMAIN nodes |-> NodeToken(nodes[i])],
         post_arity |-> [i \in DOMAIN nodes |-> Len(nodes[i].args)]]

\* lines 168-172
symbol_or_constant(x) ==
    IF x.type = "str" THEN SymbolText(x.text) ELSE <<ToStr(x.value), ".0">>

Reverse(s) == [i \in DOMAIN s |-> s[Len(s) + 1 - i]]

\* lines 178-180 taking what the stack holds when it holds too little
PopArgs_Lenient(stack, arg_arity) ==
    LET taken == IF Len(stack) < arg_arity THEN Len(stack) ELSE arg_arity
    IN  [ok |-> TRUE,
         stack_temporary |-> Reverse(SubSeq(stack, Len(stack) - taken + 1, Len(stack))),
         stack |-> SubSeq(stack, 1, Len(stack) - taken)]

\* lines 178-180: arg_arity pops; a pop from the empty list raises
PopArgs(stack, arg_arity) ==
    IF Len(stack) < arg_arity
    THEN [ok |-> FALSE, stack_temporary |-> <<>>, stack |-> <<>>]
    ELSE [ok |-> TRUE,
          stack_temporary |-> Reverse(SubSeq(stack, Len(stack) - arg_arity + 1, Len(stack))),
          stack |-> SubSeq(stack, 1, Len(stack) - arg_arity)]

\* lines 181-187 joining the popped items in the order popped
CallText_Unreversed(arg, stack_temporary) ==
    arg.text \o <<"(">> \o JoinComma(stack_temporary) \o <<")">>

\* lines 181-187: arg + "(" + ",".join(stack_temporary[::-1]) + ")"
CallText(arg, stack_temporary) ==
    arg.text \o <<"(">> \o JoinComma(Reverse(stack_temporary)) \o <<")">>

RECURSIVE Reduce(_, _, _, _)
\* lines 174-188: the loop over zip(post, post_arity) from pair i on
Reduce(tokens, arities, i, stack) ==
    IF i > Len(tokens) \/ i > Len(arities) THEN [err |-> "", stack |-> stack]
    ELSE IF arities[i] = 0
    THEN Reduce(tokens, arities, i + 1, Append(stack, symbol_or_constant(tokens[i])))
    ELSE LET popped == PopArgs(stack, arities[i])
         IN  IF ~popped.ok THEN [err |-> "PopFromEmpty", stack |-> stack]
             ELSE IF tokens[i].type # "str" THEN [err |-> "TypeError", stack |-> stack]
             ELSE Reduce(tokens, arities, i + 1,
                         Append(popped.stack, CallText(tokens[i], popped.stack_temporary)))

\* lines 161-190
postfix_to_expr(tokens, arities) ==
    LET r == Reduce(tokens, arities, 1, <<>>)
    IN  IF r.err # "" THEN [err |-> r.err, e |-> NoExpr]
        ELSE IF r.stack = <<>> THEN [err |-> "IndexError", e |-> NoExpr]
        ELSE IF ~sympify(r.stack[1]).ok THEN [err |-> "SympifyError", e |-> NoExpr]
        ELSE [err |-> "", e |-> sympify(r.stack[1]).e]

\* the expressions given to expr_to_postfix
PostfixExprs ==
    ExprsUpTo({Sym("x", 0), Sym("x", 1), IntLit(2), FloatLit(2)},
              UnaryFunctions, BinaryOperators, MaxExprSize)

\* the tokens and arities a caller may hand to postfix_to_expr
RawTokens == {PyStr(<<"x", "0">>), PyStr(<<"Add">>), PyStr(<<"sin">>), PyFloat(2)}

Arities == 0..2

SeqsUpTo(S, k) == UNION {[1..m -> S] : m \in 0..k}

PostfixInit ==
    /\ prebuilt = NoExpr
    /\ perr = ""
    /\ \/ /\ ppc = "expr"
          /\ pexpr \in PostfixExprs
          /\ post = <<>>
          /\ post_arity = <<>>
       \/ /\ ppc = "tokens"
          /\ pexpr = NoExpr
          /\ post \in SeqsUpTo(RawTokens, MaxTokens)
          /\ post_arity \in SeqsUpTo(Arities, MaxTokens)
    \* the other groups of functions are idle
    /\ n = 0 /\ max_degree = 0 /\ degreeness = 0 /\ nums = <<>>
    /\ prufer_sequence = <<>> /\ tpc = "idle" /\ terr = "" /\ draws = 0 /\ T = NoTree
    /\ D = NoTree /\ n_symbols = 0 /\ expr = <<>> /\ lnode = -1
    /\ cexpr = NoExpr /\ cstr = <<>> /\ cresult = NoExpr /\ cpc = "idle"
    /\ _expr = NoExpr /\ _lambdified_expr = [params |-> <<>>, body |-> NoExpr]
    /\ call = NoCall /\ outcome = NoOutcome /\ epc = "idle"

\* lines 142-158
ExprToPostfix ==
    /\ ppc = "expr"
    /\ post' = expr_to_postfix(pexpr).post
    /\ post_arity' = expr_to_postfix(pexpr).post_arity
    /\ ppc' = "tokens"
    /\ UNCHANGED <<pexpr, prebuilt, perr>>
    /\ UNCHANGED <<treeVars, labelVars, constVars, equationVars>>

\* lines 161-190
PostfixToExpr ==
    /\ ppc = "tokens"
    /\ LET r == postfix_to_expr(post, post_arity)
       IN  /\ perr' = r.err
           /\ prebuilt' = r.e
           /\ ppc' = IF r.err = "" THEN "done" ELSE "error"
    /\ UNCHANGED <<pexpr, post, post_arity>>
    /\ UNCHANGED <<treeVars, labelVars, constVars, equationVars>>

(***************************************************************************)
(* BaseEquation                                                            *)
(***************************************************************************)
\* numbers of numpy: a scalar, or a vector with one entry per row of X
Vector(xs) == [shape |-> "vector", v |-> xs]

Entry(a, i) == IF a.shape = "scalar" THEN a.v[1] ELSE a.v[i]

\* numpy broadcasting of a binary operation
Broadcast(f, a, b) ==
    LET apply(x, y) == IF f = "Add" THEN x + y ELSE x * y
    IN  IF a.shape = "scalar" /\ b.shape = "scalar"
        THEN Scalar(apply(a.v[1], b.v[1]))
        ELSE LET len == IF a.shape = "vector" THEN Len(a.v) ELSE Len(b.v)
             IN  Vector([i \in 1..len |-> apply(Entry(a, i), Entry(b, i))])

RECURSIVE AtomsOf(_)
\* expr.atoms(): the leaves
AtomsOf(e) ==
    IF e.args = <<>> THEN {e} ELSE UNION {AtomsOf(e.args[i]) : i \in DOMAIN e.args}

\* CONST_BASE_NAME in x.name
NameHasConst(x) == x.base = CONST_BASE_NAME

\* lines 67-77
free_variables(e) == {x \in AtomsOf(e) : x.kind = "Symbol" /\ ~NameHasConst(x)}

variables(e) == {x \in AtomsOf(e) : x.kind = "Symbol"}

eq_constants(e) == {x \in AtomsOf(e) : x.kind = "Symbol" /\ NameHasConst(x)}

\* the orders in which list(a set) can give the elements of S
Orderings(S) ==
    {s \in [1..Cardinality(S) -> S] : \A i, j \in DOMAIN s : s[i] = s[j] => i = j}

NameOf(x) == NameText(x.base, x.index)

\* int(name.replace(base, "")), lines 84 and 92
IndexInName(name, base) == ToInt(SelectSeq(name, LAMBDA tok : tok # base)[1])

RECURSIVE EvalBody(_, _)
\* the generated function's body on the bound parameters
EvalBody(e, env) ==
    CASE e.kind = "Symbol" -> env[e]
      [] e.kind = "op" ->
            IF Len(e.args) = 1 THEN EvalBody(e.args[1], env)
            ELSE Broadcast(e.base, EvalBody(e.args[1], env),
                           EvalBody(Node(e.base, Tail(e.args)), env))
      [] OTHER -> Scalar(e.index)

\* line 15: lambdify(args, expr), a function whose parameters are named args
lambdify(args, e) == [params |-> args, body |-> e]

Raise(err) == [kind |-> "raise", err |-> err, value |-> Scalar(0), e |-> NoExpr]

Return(value) == [kind |-> "return", err |-> "", value |-> value, e |-> NoExpr]

ReturnExpr(e) == [kind |-> "return", err |-> "", value |-> Scalar(0), e |-> e]

\* a dict: the keys in insertion order and the value of each
EmptyDict == [keys |-> <<>>, val |-> <<>>]

DictSet(d, key, value) == [keys |-> Append(d.keys, key), val |-> Append(d.val, value)]

DictGet(d, key) == d.val[CHOOSE i \in DOMAIN d.keys : d.keys[i] = key]

\* f(*values): the parameters bound by position
CallPositional(f, d) ==
    IF Len(d.val) # Len(f.params) THEN Raise("TypeError")
    ELSE Return(EvalBody(f.body,
                  [x \in Range(f.params) |->
                      d.val[CHOOSE i \in DOMAIN f.params : f.params[i] = x]]))

\* f(**d): the parameters bound by name
CallKeywords(f, d) ==
    IF Range(d.keys) # {NameOf(x) : x \in Range(f.params)} THEN Raise("TypeError")
    ELSE Return(EvalBody(f.body, [x \in Range(f.params) |-> DictGet(d, NameOf(x))]))

RECURSIVE numpy_to_sympy_array(_, _, _)
\* lines 80-85, the loop over the free variables in the order given, from the
\* dict X_sympy built so far
numpy_to_sympy_array(X, order, X_sympy) ==
    IF order = <<>> THEN [err |-> "", dict |-> X_sympy]
    ELSE LET name == NameOf(Head(order))
             col == IndexInName(name, "x")
         IN  IF col + 1 > Len(X[1]) THEN [err |-> "IndexError", dict |-> X_sympy]
             ELSE numpy_to_sympy_array(X, Tail(order),
                      DictSet(X_sympy, name, Vector([r \in DOMAIN X |-> X[r][col + 1]])))

Some(v) == [isNone |-> FALSE, v |-> v]

RECURSIVE numpy_to_sympy_constants(_, _, _)
\* lines 88-93, the loop over the constants in the order given
numpy_to_sympy_constants(constants_, order, constants_sympy) ==
    IF order = <<>> THEN [err |-> "", dict |-> constants_sympy]
    ELSE LET name == NameOf(Head(order))
             i == IndexInName(name, CONST_BASE_NAME)
         IN  IF constants_.isNone THEN [err |-> "TypeError", dict |-> constants_sympy]
             ELSE IF i + 1 > Len(constants_.v)
             THEN [err |-> "IndexError", dict |-> constants_sympy]
             ELSE numpy_to_sympy_constants(constants_, Tail(order),
                      DictSet(constants_sympy, name, Scalar(constants_.v[i + 1])))

\* **X_sympy, **constants_sympy
DictMerge(a, b) == [keys |-> a.keys \o b.keys, val |-> a.val \o b.val]

\* lines 44-47 calling the generated function with the values in dict order
func_positional(f, e, X, constants_, free_order, const_order) ==
    LET X_sympy == numpy_to_sympy_array(X, free_order, EmptyDict)
        constants_sympy == numpy_to_sympy_constants(constants_, const_order, EmptyDict)
    IN  IF X_sympy.err # "" THEN Raise(X_sympy.err)
        ELSE IF constants_sympy.err # "" THEN Raise(constants_sympy.err)
        ELSE CallPositional(f, DictMerge(X_sympy.dict, constants_sympy.dict))

\* lines 44-47: func of the equation with _lambdified_expr f and _expr e;
\* free_order and const_order are the orders the atoms are iterated in
func(f, e, X, constants_, free_order, const_order) ==
    LET X_sympy == numpy_to_sympy_array(X, free_order, EmptyDict)
        constants_sympy == numpy_to_sympy_constants(constants_, const_order, EmptyDict)
    IN  IF X_sympy.err # "" THEN Raise(X_sympy.err)
        ELSE IF constants_sympy.err # "" THEN Raise(constants_sympy.err)
        ELSE CallKeywords(f, DictMerge(X_sympy.dict, constants_sympy.dict))

RECURSIVE Substitute(_, _)
\* expr.subs(d): every symbol that is a key replaced by its value; an Add or
\* Mul of numbers alone evaluates
Substitute(e, d) ==
    CASE e.kind = "Symbol" ->
            IF NameOf(e) \in Range(d.keys) THEN IntLit(DictGet(d, NameOf(e)).v[1]) ELSE e
      [] e.kind = "op" ->
            LET args == [i \in DOMAIN e.args |-> Substitute(e.args[i], d)]
            IN  IF \A i \in DOMAIN args : IsNumber(args[i])
                THEN IntLit(EvalBody(Node(e.base, args), <<>>).v[1])
                ELSE Node(e.base, args)
      [] OTHER -> e

\* lines 28-31
subs(e, constants_, const_order) ==
    LET constants_sympy == numpy_to_sympy_constants(constants_, const_order, EmptyDict)
    IN  IF constants_sympy.err # "" THEN Raise(constants_sympy.err)
        ELSE ReturnExpr(Substitute(e, constants_sympy.dict))

\* Python's constant NotImplemented
NotImplementedObject == [kind |-> "NotImplemented", base |-> "", index |-> -1, args |-> <<>>]

\* the objects of Python that can be called; the constant NotImplemented is
\* none of them
PyCallables == {"NotImplementedError"}

\* line 42: return NotImplemented("")
derivative_wrt_x(X, constants_) ==
    IF "NotImplemented" \in PyCallables
    THEN ReturnExpr(NotImplementedObject)
    ELSE Raise("TypeError")

EquationExprs ==
    ExprsUpTo({Sym("x", 0), Sym("x", 1), Sym(CONST_BASE_NAME, 0), Sym(CONST_BASE_NAME, 1)},
              {}, {"Add", "Mul"}, MaxExprSize)

XEntries == {2, 3}

ConstantEntries == {3, 5}

\* the arrays X: 1..MaxRows rows of one or two columns
Arrays == UNION {[1..r -> [1..w -> XEntries]] : r \in 1..MaxRows, w \in 1..2}

\* the constants arguments: None, or a sequence of up to two values
ConstantArgs == {None} \cup {Some(v) : v \in SeqsUpTo(ConstantEntries, 2)}

\* lines 8-26: the constructor; the order of self.variables is that of a set
EquationInit ==
    /\ _expr \in EquationExprs
    /\ \E order \in Orderings(variables(_expr)) : _lambdified_expr = lambdify(order, _expr)
    /\ call = NoCall
    /\ outcome = NoOutcome
    /\ epc = "ready"
    \* the other groups of functions are idle
    /\ n = 0 /\ max_degree = 0 /\ degreeness = 0 /\ nums = <<>>
    /\ prufer_sequence = <<>> /\ tpc = "idle" /\ terr = "" /\ draws = 0 /\ T = NoTree
    /\ D = NoTree /\ n_symbols = 0 /\ expr = <<>> /\ lnode = -1
    /\ cexpr = NoExpr /\ cstr = <<>> /\ cresult = NoExpr /\ cpc = "idle"
    /\ pexpr = NoExpr /\ post = <<>> /\ post_arity = <<>>
    /\ prebuilt = NoExpr /\ perr = "" /\ ppc = "idle"

\* lines 44-47
Func ==
    /\ epc = "ready"
    /\ \E X \in Arrays, c \in ConstantArgs,
          free_order \in Orderings(free_variables(_expr)),
          const_order \in Orderings(eq_constants(_expr)) :
          /\ call' = [op |-> "func", X |-> X, constants |-> c]
          /\ outcome' = func(_lambdified_expr, _expr, X, c, free_order, const_order)
    /\ epc' = "called"
    /\ UNCHANGED <<_expr, _lambdified_expr>>
    /\ UNCHANGED <<treeVars, labelVars, constVars, postfixVars>>

\* lines 28-31
Subs ==
    /\ epc = "ready"
    /\ \E c \in ConstantArgs, const_order \in Orderings(eq_constants(_expr)) :
          /\ call' = [op |-> "subs", X |-> <<>>, constants |-> c]
          /\ outcome' = subs(_expr, c, const_order)
    /\ epc' = "called"
    /\ UNCHANGED <<_expr, _lambdified_expr>>
    /\ UNCHANGED <<treeVars, labelVars, constVars, postfixVars>>

\* lines 41-42
DerivativeWrtX ==
    /\ epc = "ready"
    /\ \E X \in Arrays, c \in ConstantArgs :
          /\ call' = [op |-> "derivative_wrt_x", X |-> X, constants |-> c]
          /\ outcome' = derivative_wrt_x(X, c)
    /\ epc' = "called"
    /\ UNCHANGED <<_expr, _lambdified_expr>>
    /\ UNCHANGED <<treeVars, labelVars, constVars, postfixVars>>

(***************************************************************************)
(* Properties of the labelled tree                                         *)
(***************************************************************************)
\* C9: after generate_random_formula_on_graph every node carries a label: a
\* leaf a free variable x{i}, i < n_symbols, or a value of the constant pool;
\* a node of out-degree 1 an operator of the unary pool; a node of out-degree
\* d >= 2 an operator of the any-arity pool or of the pool registered for d,
\* never the empty label.
C9_LabelsFitOutDegree ==
    (lnode >= 0 /\ lnode \notin D.nodes) =>
        \A u \in D.nodes :
            LET d == OutDegree(D, u)
            IN  /\ expr[u] # NoLabel
                /\ d = 0 => expr[u] \in symbols(n_symbols) \cup constants
                /\ d = 1 => expr[u] \in {Text(f) : f \in functions_with_arity(1)}
                /\ d >= 2 =>
                      /\ expr[u] # Text("")
                      /\ expr[u] \in
                            {Text(f) : f \in functions_with_arity(0) \cup
                                (IF d \in RegisteredArities
                                 THEN functions_with_arity(d) ELSE {})}

(***************************************************************************)
(* Properties of the enumeration of constants                              *)
(***************************************************************************)
RECURSIVE ConstLeafSeq(_)
\* the indices of the constant symbols of e, left to right (-1: un-numbered)
ConstLeafSeq(e) ==
    IF e.kind = "Symbol" THEN (IF NameHasConst(e) THEN <<e.index>> ELSE <<>>)
    ELSE Flatten([i \in DOMAIN e.args |-> ConstLeafSeq(e.args[i])])

RECURSIVE Unnumbered(_)
\* e with every constant symbol un-numbered
Unnumbered(e) ==
    IF e.kind = "Symbol" THEN (IF NameHasConst(e) THEN Sym(e.base, -1) ELSE e)
    ELSE [e EXCEPT !.args = [i \in DOMAIN e.args |-> Unnumbered(e.args[i])]]

RECURSIVE TextUnnumbered(_)
\* a text with the index of every constant symbol taken out
TextUnnumbered(s) ==
    IF s = <<>> THEN <<>>
    ELSE IF Len(s) >= 3 /\ s[1] = "Symbol('" /\ s[2] = CONST_BASE_NAME /\ IsDigit(s[3])
    THEN <<s[1], s[2]>> \o TextUnnumbered(SubSeq(s, 4, Len(s)))
    ELSE <<Head(s)>> \o TextUnnumbered(Tail(s))

RECURSIVE HasIntegerLiteral(_)
HasIntegerLiteral(e) ==
    \/ e.kind = "Integer"
    \/ \E i \in DOMAIN e.args : HasIntegerLiteral(e.args[i])

RECURSIVE Depth(_, _)
\* the number of items on the stack after k pairs, none of which failed
Depth(arities, k) == IF k = 0 THEN 0 ELSE Depth(arities, k - 1) + 1 - arities[k]

Pairs == 1..(IF Len(post) < Len(post_arity) THEN Len(post) ELSE Len(post_arity))

UnderflowAt(k) == post_arity[k] > Depth(post_arity, k - 1)

\* the first pair that fails is one whose arity exceeds the stack
FirstFailureIsUnderflow ==
    \E k \in Pairs :
        /\ UnderflowAt(k)
        /\ \A j \in 1..(k - 1) :
              /\ ~UnderflowAt(j)
              /\ post_arity[j] > 0 => post[j].type = "str"

\* (post, post_arity) is the postfix encoding of exactly one expression tree
WellFormedEncoding ==
    /\ Len(post) = Len(post_arity)
    /\ Len(post) >= 1
    /\ \A k \in Pairs :
          /\ ~UnderflowAt(k)
          /\ post_arity[k] > 0 =>
                /\ post[k].type = "str"
                /\ Len(post[k].text) = 1
                /\ post[k].text[1] \in KnownConstructors \ {"Integer"}
                /\ Accepts(post[k].text[1], post_arity[k])
    /\ Depth(post_arity, Len(post)) = 1

CalledOnTokens == pexpr = NoExpr /\ ppc \in {"done", "error"}

\* C7 as claimed: on every input that is not the postfix encoding of exactly
\* one expression tree postfix_to_expr fails with a pop from the empty stack
\* and returns no expression.
C7_MalformedUnderflows ==
    (CalledOnTokens /\ ~WellFormedEncoding) => (ppc = "error" /\ perr = "PopFromEmpty")

\* C7 as amended: postfix_to_expr fails with a pop from the empty stack
\* exactly when the first pair to fail is one whose arity exceeds the number
\* of items on the stack; pairs that are all leaves never fail, however many
\* they are: the first leaf is returned.
C7_UnderflowExactly ==
    CalledOnTokens =>
        /\ (perr = "PopFromEmpty") = FirstFailureIsUnderflow
        /\ perr = "PopFromEmpty" => (ppc = "error" /\ prebuilt = NoExpr)
        /\ (Pairs # {} /\ \A k \in Pairs : post_arity[k] = 0) =>
              /\ ppc = "done"
              /\ prebuilt = sympify(symbol_or_constant(post[1])).e

\* C7's case: two leaves and no operator, an input that encodes no single
\* tree, and the call returned the first leaf.
C7_Witness ==
    /\ CalledOnTokens
    /\ post = <<PyFloat(2), PyStr(<<"x", "0">>)>>
    /\ post_arity = <<0, 0>>
    /\ ~WellFormedEncoding
    /\ ppc = "done"
    /\ prebuilt = FloatLit(2)

(***************************************************************************)
(* Properties of the equation wrapper                                      *)
(***************************************************************************)
RECURSIVE ValueAt(_, _, _)
\* the value of e with x{i} bound to row[i] and const{i} to cs[i] (0-based)
ValueAt(e, row, cs) ==
    CASE e.kind = "Symbol" ->
            IF NameHasConst(e) THEN cs[e.index + 1] ELSE row[e.index + 1]
      [] e.kind = "op" ->
            IF Len(e.args) = 1 THEN ValueAt(e.args[1], row, cs)
            ELSE LET a == ValueAt(e.args[1], row, cs)
                     b == ValueAt(Node(e.base, Tail(e.args)), row, cs)
                 IN  IF e.base = "Add" THEN a + b ELSE a * b
      [] OTHER -> e.index

\* X has a column for every free variable, constants a value for every constant
ArgumentsSuffice ==
    /\ \A x \in free_variables(_expr) : x.index + 1 <= Len(call.X[1])
    /\ eq_constants(_expr) # {} =>
          /\ ~call.constants.isNone
          /\ \A c \in eq_constants(_expr) : c.index + 1 <= Len(call.constants.v)

\* C4: func(X, constants) is the expression's value with x{i} bound to column
\* i of X and const{i} to constants[i], whatever the orders in which the
\* atoms are iterated.
C4_FuncBindsByIndex ==
    (epc = "called" /\ call.op = "func" /\ ArgumentsSuffice) =>
        /\ outcome.kind = "return"
        /\ outcome.value =
              IF free_variables(_expr) = {}
              THEN Scalar(ValueAt(_expr, <<>>, call.constants.v))
              ELSE Vector([r \in DOMAIN call.X |->
                              ValueAt(_expr, call.X[r], call.constants.v)])

\* C4's case: const0*x0 + const1 at X = [[2]], constants = [3, 5] gave 11, the
\* generated function taking const1 before const0.
C4_Witness ==
    /\ epc = "called"
    /\ call.op = "func"
    /\ _expr = Node("Add", <<Node("Mul", <<Sym(CONST_BASE_NAME, 0), Sym("x", 0)>>),
                             Sym(CONST_BASE_NAME, 1)>>)
    /\ _lambdified_expr.params = <<Sym(CONST_BASE_NAME, 1), Sym("x", 0), Sym(CONST_BASE_NAME, 0)>>
    /\ call.X = <<<<2>>>>
    /\ call.constants = Some(<<3, 5>>)
    /\ outcome = Return(Vector(<<11>>))

\* C6: subs with constants absent substitutes nothing on any equation: it
\* raises nothing and returns the wrapped expression.
C6_SubsNoneIsNoOp ==
    (epc = "called" /\ call.op = "subs" /\ call.constants.isNone) =>
        /\ outcome.kind = "return"
        /\ outcome.e = _expr

\* C8: derivative_wrt_x always returns the not-implemented marker.
C8_ReturnsNotImplemented ==
    (epc = "called" /\ call.op = "derivative_wrt_x") =>
        /\ outcome.kind = "return"
        /\ outcome.e = NotImplementedObject

(***************************************************************************)
(* The specifications, one per group of functions.                         *)
(***************************************************************************)
TreeNext == SampleStep \/ LoopExit \/ Shuffle \/ Decode

LabelNext == LabelNode

ConstNext == EnumerateAtRoot

PostfixNext == ExprToPostfix \/ PostfixToExpr

EquationNext == Func \/ Subs \/ DerivativeWrtX

SpecTree == TreeInit /\ [][TreeNext]_vars

SpecLabel == LabelInit /\ [][LabelNext]_vars

SpecConst == ConstInit /\ [][ConstNext]_vars

SpecPostfix == PostfixInit /\ [][PostfixNext]_vars

SpecEquation == EquationInit /\ [][EquationNext]_vars

====
